---- MODULE Spec2Model ----
(***************************************************************************)
(* Model of Project/utils/io.py: dataset discovery (find_csv), loading     *)
(* (load_dataset), binary detection (_is_binary) and target selection      *)
(* (guess_target_column).                                                  *)
(*                                                                         *)
(* Python strings that the code inspects (column names, preferred, TARGET, *)
(* string cells) are sequences of one-character strings, so that strip(),  *)
(* lower() and startswith() are computed.  Paths are only tested for       *)
(* existence and are plain strings.                                        *)
(***************************************************************************)
EXTENDS Integers, Sequences, FiniteSets, TLC

VARIABLES
    environ,    \* os.environ: a function from the names of the set variables to their values
    files,      \* the paths that exist on disk
    op,         \* the last operation: "init", "env", or the name of the function called
    args,       \* the arguments of the last call
    result      \* the outcome of the last call: [kind |-> "return" | "raise", value |-> ...]

vars == <<environ, files, op, args, result>>

\* ---------------------------------------------------------------- bounds
MaxRows == 3
MaxCols == 3

\* ---------------------------------------------------------------- Python values
\* Python's None, where an Optional[str] is expected (no string has a
\* several-character element).
None == <<"None">>

Return(v) == [kind |-> "return", value |-> v]
Raise(e) == [kind |-> "raise", value |-> e]
NoResult == [kind |-> "none"]
NoArgs == [none |-> TRUE]

UPPER == <<"A","B","C","D","E","F","G","H","I","J","K","L","M",
           "N","O","P","Q","R","S","T","U","V","W","X","Y","Z">>
LOWER == <<"a","b","c","d","e","f","g","h","i","j","k","l","m",
           "n","o","p","q","r","s","t","u","v","w","x","y","z">>
DIGITS == <<"0","1","2","3","4","5","6","7","8","9">>

\* str.isspace() of one character
isspace(c) == c \in {" ", "\t", "\n", "\r"}

\* str.lower() of one character
lowerChar(c) ==
    IF \E i \in 1..26 : UPPER[i] = c
    THEN LOWER[CHOOSE i \in 1..26 : UPPER[i] = c]
    ELSE c

\* lower() left out: the name is compared in its own case.
lower_missing(s) == s

\* str.lower()
lower(s) == [i \in 1..Len(s) |-> lowerChar(s[i])]

\* str.strip(): leading and trailing whitespace removed
RECURSIVE lstrip(_)
lstrip(s) == IF s # <<>> /\ isspace(Head(s)) THEN lstrip(Tail(s)) ELSE s

RECURSIVE rstrip(_)
rstrip(s) ==
    IF s # <<>> /\ isspace(s[Len(s)]) THEN rstrip(SubSeq(s, 1, Len(s) - 1)) ELSE s

strip(s) == rstrip(lstrip(s))

\* str.startswith(prefix)
startswith(s, prefix) ==
    Len(s) >= Len(prefix) /\ SubSeq(s, 1, Len(prefix)) = prefix

\* Truthiness of an Optional[str]: None and "" are falsy
truthy(x) == x # None /\ x # <<>>

\* a or b
Or(a, b) == IF truthy(a) THEN a ELSE b

\* Project.utils.sanitize.safe_col: canonical identifier form of a name
\* (lower case, every character that is not a letter or digit becomes "_").
safe_col(s) ==
    [i \in 1..Len(s) |->
        LET c == lowerChar(s[i])
        IN IF (\E k \in 1..26 : LOWER[k] = c) \/ (\E k \in 1..10 : DIGITS[k] = c)
           THEN c ELSE "_"]

\* ---------------------------------------------------------------- cells and series
\* A cell of a column: missing (NaN/None), an integer, a string or a boolean.
NA == [t |-> "na"]
IntCell(n) == [t |-> "int", v |-> n]
StrCell(s) == [t |-> "str", v |-> s]
BoolCell(b) == [t |-> "bool", v |-> b]

\* str(v) of a cell value
str(c) ==
    CASE c.t = "int" -> <<DIGITS[c.v + 1]>>
      [] c.t = "str" -> c.v
      [] c.t = "bool" -> IF c.v THEN <<"T","r","u","e">> ELSE <<"F","a","l","s","e">>

\* A pandas Series: its dtype and its cells in row order.
Series(dtype, cells) == [dtype |-> dtype, cells |-> cells]

\* series.dropna().unique(): the distinct non-missing values
dropna_unique(series) ==
    {series.cells[i] : i \in 1..Len(series.cells)} \ {NA}

YES == <<"y","e","s">>
NO == <<"n","o">>
TRUE_ == <<"t","r","u","e">>
FALSE_ == <<"f","a","l","s","e">>
BinaryWords == {YES, NO, TRUE_, FALSE_, <<"0">>, <<"1">>}

\* Only a natively boolean column counts as binary.
_is_binary_bool_only(series) == series.dtype = "bool"

\* _is_binary(series)
_is_binary(series) ==
    IF series.dtype = "bool" THEN TRUE
    ELSE LET values == dropna_unique(series)
         IN IF Cardinality(values) = 0 THEN FALSE
            ELSE IF Cardinality(values) <= 2 THEN TRUE
            ELSE LET lowered == {lower(strip(str(v))) : v \in {w \in values : strip(str(w)) # <<>>}}
                 IN lowered \subseteq BinaryWords

\* ---------------------------------------------------------------- inputs: series
\* All sequences over S of length exactly n.
RECURSIVE SeqsOfLen(_, _)
SeqsOfLen(S, n) ==
    IF n = 0 THEN {<<>>}
    ELSE {Append(s, x) : s \in SeqsOfLen(S, n - 1), x \in S}

\* All sequences of n distinct elements of S: the column names of a table.
RECURSIVE DistinctSeqs(_, _)
DistinctSeqs(S, n) ==
    IF n = 0 THEN {<<>>}
    ELSE UNION {{Append(s, x) : x \in S \ {s[i] : i \in 1..Len(s)}} :
                s \in DistinctSeqs(S, n - 1)}

BoolCells == {BoolCell(TRUE), BoolCell(FALSE)}
IntCells == {IntCell(0), IntCell(1), IntCell(2)}
ObjectCells == {NA, StrCell(<<>>), StrCell(<<" ">>), StrCell(<<"Y","e","s">>), StrCell(<<"n","o"," ">>), StrCell(<<"x">>)}

\* Every series of n rows over the cells above.
SeriesOfLen(n) ==
    {Series("bool", c) : c \in SeqsOfLen(BoolCells, n)}
    \cup {Series("int64", c) : c \in SeqsOfLen(IntCells, n)}
    \cup {Series("object", c) : c \in SeqsOfLen(ObjectCells, n)}


\* ---------------------------------------------------------------- tables
\* A DataFrame: its columns in order, each a name and a series.  df.columns
\* is the sequence of the names; the names of a table are distinct.
Column(name, series) == [name |-> name, series |-> series]

columns(df) == [i \in 1..Len(df) |-> df[i].name]

\* name in df.columns
has_column(df, name) == \E i \in 1..Len(df) : df[i].name = name

\* df[name]
getitem(df, name) == df[CHOOSE i \in 1..Len(df) : df[i].name = name].series

\* df.rename(columns={old: new})
rename(df, old, new) ==
    [i \in 1..Len(df) |->
        IF df[i].name = old THEN Column(new, df[i].series) ELSE df[i]]

IsInsurable == <<"I","s","I","n","s","u","r","a","b","l","e">>
SLA_Breached == <<"S","L","A","_","B","r","e","a","c","h","e","d">>

\* The table of the columns names[i], series[i].
TableOf(names, series) == [i \in 1..Len(names) |-> Column(names[i], series[i])]

\* ---------------------------------------------------------------- environment
\* os.getenv(name)
isset(name) == name \in DOMAIN environ
getenv(name) == IF isset(name) THEN environ[name] ELSE None

\* pathlib.Path(p).exists()
exists(p) == p \in files

idle == op = "idle"

\* The process environment and the disk change between calls.
SetEnv(name, Values) ==
    /\ idle
    /\ \E v \in Values :
        /\ environ' = [k \in DOMAIN environ \cup {name} |-> IF k = name THEN v ELSE environ[k]]
        /\ UNCHANGED <<files, op, args, result>>

UnsetEnv(name) ==
    /\ idle
    /\ isset(name)
    /\ environ' = [k \in DOMAIN environ \ {name} |-> environ[k]]
    /\ UNCHANGED <<files, op, args, result>>

\* The caller takes the outcome of the call; the next call can start.
ReturnToCaller ==
    /\ ~idle
    /\ op' = "idle"
    /\ args' = NoArgs
    /\ result' = NoResult
    /\ UNCHANGED <<environ, files>>

\* ---------------------------------------------------------------- find_csv
REPO_ROOT == "/repo"

candidates ==
    << REPO_ROOT \o "/src/data/modeldata.csv",
       REPO_ROOT \o "/src/data/modeldata_demo.csv",
       REPO_ROOT \o "/Project/src/data/modeldata.csv",
       REPO_ROOT \o "/Project/src/data/modeldata_demo.csv",
       REPO_ROOT \o "/src/data/datasets/tabular/modeldata.csv",
       REPO_ROOT \o "/src/data/datasets/tabular/modeldata_demo.csv" >>

\* The scan ends on a default path instead of raising.
RECURSIVE first_candidate_default(_)
first_candidate_default(i) ==
    IF i > Len(candidates) THEN Return(candidates[1])
    ELSE IF exists(candidates[i]) THEN Return(candidates[i])
    ELSE first_candidate_default(i + 1)

\* for candidate in candidates[i:]: if candidate.exists(): return str(candidate)
\* raise FileNotFoundError
RECURSIVE first_candidate(_)
first_candidate(i) ==
    IF i > Len(candidates) THEN Raise("FileNotFoundError")
    ELSE IF exists(candidates[i]) THEN Return(candidates[i])
    ELSE first_candidate(i + 1)

\* The candidates are tried before CSV_PATH.
find_csv_candidates_first ==
    IF first_candidate(1).kind = "return" THEN first_candidate(1)
    ELSE IF isset("CSV_PATH") /\ environ["CSV_PATH"] # "" /\ exists(environ["CSV_PATH"])
    THEN Return(environ["CSV_PATH"])
    ELSE Raise("FileNotFoundError")

\* A CSV_PATH that names no existing file is an error.
find_csv_strict ==
    IF isset("CSV_PATH") /\ environ["CSV_PATH"] # ""
    THEN IF exists(environ["CSV_PATH"])
         THEN Return(environ["CSV_PATH"])
         ELSE Raise("FileNotFoundError")
    ELSE first_candidate(1)

\* find_csv()
find_csv ==
    IF isset("CSV_PATH") /\ environ["CSV_PATH"] # "" /\ exists(environ["CSV_PATH"])
    THEN Return(environ["CSV_PATH"])
    ELSE first_candidate(1)

\* The rename is applied whenever SLA_Breached is present.
load_dataset_always_renames(read) ==
    LET path == find_csv
    IN IF path.kind = "raise" THEN path
       ELSE IF read.kind = "raise" THEN read
       ELSE LET df == read.value
            IN IF has_column(df, SLA_Breached)
               THEN Return(rename(df, SLA_Breached, IsInsurable))
               ELSE Return(df)

\* load_dataset(), where read is the outcome of pd.read_csv(path) on the
\* file found: the parsed table, or the parser's exception.
load_dataset(read) ==
    LET path == find_csv
    IN IF path.kind = "raise" THEN path
       ELSE IF read.kind = "raise" THEN read
       ELSE LET df == read.value
            IN IF ~has_column(df, IsInsurable) /\ has_column(df, SLA_Breached)
               THEN Return(rename(df, SLA_Breached, IsInsurable))
               ELSE Return(df)

\* ---------------------------------------------------------------- inputs: disk, CSV_PATH, files
CustomPath == "/data/custom.csv"
Paths == {candidates[i] : i \in 1..Len(candidates)} \cup {CustomPath}
CsvPathValues == {"", CustomPath, candidates[2]}

sla_breached == <<"s","l","a","_","b","r","e","a","c","h","e","d">>
Amount == <<"A","m","o","u","n","t">>
LoaderNames == {SLA_Breached, IsInsurable, sla_breached, Amount}
LoaderPool ==
    { Series("int64", <<IntCell(0), IntCell(1)>>),
      Series("object", <<StrCell(<<"x">>), NA>>) }

CreateFile ==
    /\ idle
    /\ \E p \in Paths \ files :
        /\ files' = files \cup {p}
        /\ UNCHANGED <<environ, op, args, result>>

DeleteFile ==
    /\ idle
    /\ \E p \in files :
        /\ files' = files \ {p}
        /\ UNCHANGED <<environ, op, args, result>>

SetCsvPath == SetEnv("CSV_PATH", CsvPathValues)
UnsetCsvPath == UnsetEnv("CSV_PATH")

FindCsv ==
    /\ idle
    /\ op' = "find_csv"
    /\ args' = NoArgs
    /\ result' = find_csv
    /\ UNCHANGED <<environ, files>>

\* The call load_dataset(), pd.read_csv ending as read.
Load(read) ==
    /\ op' = "load_dataset"
    /\ args' = [read |-> read]
    /\ result' = load_dataset(read)
    /\ UNCHANGED <<environ, files>>

LoadDataset ==
    /\ idle
    /\ \/ \E n \in 0..MaxCols :
            \E names \in DistinctSeqs(LoaderNames, n), series \in SeqsOfLen(LoaderPool, n) :
                Load(Return(TableOf(names, series)))
       \/ Load(Raise("ParserError"))

Init ==
    /\ environ = [k \in {} |-> ""]
    /\ files = {}
    /\ op = "idle"
    /\ args = NoArgs
    /\ result = NoResult

Next ==
    \/ SetCsvPath
    \/ UnsetCsvPath
    \/ CreateFile
    \/ DeleteFile
    \/ FindCsv
    \/ LoadDataset
    \/ ReturnToCaller

Spec == Init /\ [][Next]_vars

\* ---------------------------------------------------------------- guess_target_column
\* for variant in variants[i:]: if variant in df.columns: return variant
\* return None
RECURSIVE first_variant(_, _, _)
first_variant(df, variants, i) ==
    IF i > Len(variants) THEN None
    ELSE IF has_column(df, variants[i]) THEN variants[i]
    ELSE first_variant(df, variants, i + 1)

\* The trimmed name is returned without looking it up in df.columns.
_resolve_unchecked(df, name) ==
    IF ~truthy(name) THEN None ELSE strip(name)

\* guess_target_column._resolve(name), a closure over df
_resolve(df, name) ==
    IF ~truthy(name) THEN None
    ELSE LET name_clean == strip(name)
             variants == <<name_clean, safe_col(name_clean)>>
         IN first_variant(df, variants, 1)

\* guess_target_column(df, preferred)
guess_target_column(df, preferred) ==
    LET column_candidates == columns(df)
    IN IF Len(column_candidates) = 0 THEN Raise("ValueError")
       ELSE
         LET env_target == getenv("TARGET")
             explicit == Or(Or(_resolve(df, preferred), _resolve(df, env_target)),
                            _resolve(df, IsInsurable))
         IN IF truthy(explicit) THEN Return(explicit)
            ELSE
              LET binary_cols ==
                      SelectSeq(column_candidates, LAMBDA col : _is_binary(getitem(df, col)))
                  prioritised ==
                      SelectSeq(binary_cols, LAMBDA col : startswith(lower(col), <<"i">>))
              IN IF prioritised # <<>> THEN Return(prioritised[1])
                 ELSE IF binary_cols # <<>> THEN Return(binary_cols[1])
                 ELSE Return(column_candidates[Len(column_candidates)])

\* ---------------------------------------------------------------- inputs: tables, preferred, TARGET
id == <<"i","d">>
IsFraud == <<"I","s","F","r","a","u","d">>
EmptyName == <<>>
TargetNames == {EmptyName, id, IsFraud, Amount, IsInsurable}

\* One series for each way _is_binary decides, all of three rows.
TargetPool ==
    { Series("bool", <<BoolCell(TRUE), BoolCell(FALSE), BoolCell(TRUE)>>),
      Series("int64", <<IntCell(0), IntCell(1), IntCell(2)>>),
      Series("object", <<StrCell(<<" ","Y","e","s">>), StrCell(<<"n","o">>), StrCell(<<"T","R","U","E">>)>>),
      Series("object", <<NA, NA, StrCell(<<"x">>)>>) }

PreferredValues ==
    { None, <<>>, <<" ">>, <<" ","i","d"," ">>, <<"I","D">> }

TargetValues ==
    { <<>>, <<" ">>, IsFraud }

SetTarget == SetEnv("TARGET", TargetValues)
UnsetTarget == UnsetEnv("TARGET")

\* The call guess_target_column(df, preferred).
Guess(df, preferred) ==
    /\ op' = "guess_target_column"
    /\ args' = [df |-> df, preferred |-> preferred]
    /\ result' = guess_target_column(df, preferred)
    /\ UNCHANGED <<environ, files>>

GuessTarget ==
    /\ idle
    /\ \E n \in 0..MaxCols :
         \E names \in DistinctSeqs(TargetNames, n), series \in SeqsOfLen(TargetPool, n),
            preferred \in PreferredValues :
                Guess(TableOf(names, series), preferred)

InitTarget == Init

NextTarget ==
    \/ SetTarget
    \/ UnsetTarget
    \/ GuessTarget
    \/ ReturnToCaller

SpecTarget == InitTarget /\ [][NextTarget]_vars

\* ---------------------------------------------------------------- the IsFraud table
\* Tables with the columns ["id", "IsFraud", "Amount"], IsFraud holding 0 and 1
\* only, id and Amount of every content.
FraudCells == {IntCell(0), IntCell(1)}
AmountCells == {NA, StrCell(<<"x">>)}

IdSeriesOfLen(n) ==
    {Series("bool", c) : c \in SeqsOfLen(BoolCells, n)}
    \cup {Series("int64", c) : c \in SeqsOfLen(IntCells, n)}
FraudSeriesOfLen(n) == {Series("int64", c) : c \in SeqsOfLen(FraudCells, n)}
AmountSeriesOfLen(n) ==
    {Series("bool", c) : c \in SeqsOfLen(BoolCells, n)}
    \cup {Series("object", c) : c \in SeqsOfLen(AmountCells, n)}

FraudPreferred == { None, <<"I","D">> }
FraudTargetValues == { <<"A","M","O","U","N","T">> }

SetFraudTarget == SetEnv("TARGET", FraudTargetValues)
GuessFraud ==
    /\ idle
    /\ \E n \in 0..MaxRows :
         \E ids \in IdSeriesOfLen(n), fraud \in FraudSeriesOfLen(n),
            amount \in AmountSeriesOfLen(n), preferred \in FraudPreferred :
                Guess(<<Column(id, ids), Column(IsFraud, fraud), Column(Amount, amount)>>,
                      preferred)

NextFraud ==
    \/ SetFraudTarget
    \/ UnsetTarget
    \/ GuessFraud
    \/ ReturnToCaller

SpecFraud == Init /\ [][NextFraud]_vars

\* ---------------------------------------------------------------- _is_binary called alone
InitBinary == Init

IsBinaryCall ==
    /\ idle
    /\ \E n \in 0..MaxRows : \E series \in SeriesOfLen(n) :
        /\ op' = "_is_binary"
        /\ args' = [series |-> series]
        /\ result' = Return(_is_binary(series))
        /\ UNCHANGED <<environ, files>>

NextBinary == IsBinaryCall \/ ReturnToCaller

SpecBinary == InitBinary /\ [][NextBinary]_vars

\* ---------------------------------------------------------------- properties
\* The last call was guess_target_column(args.df, args.preferred).
guessed == op = "guess_target_column"

\* A name resolves against a table: it is given, not empty, and its trimmed
\* form or the sanitized trimmed form is a column.
Resolves(df, name) ==
    /\ name # None
    /\ name # <<>>
    /\ \/ has_column(df, strip(name))
       \/ has_column(df, safe_col(strip(name)))

\* The column a resolving name resolves to.
Resolution(df, name) ==
    IF has_column(df, strip(name)) THEN strip(name) ELSE safe_col(strip(name))

\* Neither preferred, TARGET nor "IsInsurable" resolves.
NoneResolves(df, preferred) ==
    /\ ~Resolves(df, preferred)
    /\ ~Resolves(df, getenv("TARGET"))
    /\ ~Resolves(df, IsInsurable)

\* C1: guess_target_column fails (ValueError) exactly when the table has no
\* column; on every other table it returns the name of one of its columns,
\* whatever preferred and TARGET are.
C1_FailsIffNoColumn ==
    guessed =>
        IF Len(args.df) = 0
        THEN result = Raise("ValueError")
        ELSE result.kind = "return" /\ has_column(args.df, result.value)

\* A table with columns, a preferred name that is no column and a blank TARGET.
C1_Witness ==
    /\ guessed
    /\ Len(args.df) > 0
    /\ args.preferred = <<"I","D">>
    /\ ~has_column(args.df, id)
    /\ getenv("TARGET") = <<" ">>
    /\ result.kind = "return"

\* C2: preferred, then TARGET, then "IsInsurable": the first of them that
\* resolves to a column (trimmed name first, then its sanitized form) is what
\* is returned; the heuristics decide only when none resolves.
C2_PriorityOrder ==
    (guessed /\ Len(args.df) > 0) =>
        LET df == args.df
            preferred == args.preferred
            env_target == getenv("TARGET")
        IN /\ Resolves(df, preferred) => result = Return(Resolution(df, preferred))
           /\ (~Resolves(df, preferred) /\ Resolves(df, env_target))
                 => result = Return(Resolution(df, env_target))
           /\ (~Resolves(df, preferred) /\ ~Resolves(df, env_target) /\ Resolves(df, IsInsurable))
                 => result = Return(Resolution(df, IsInsurable))

\* The least element of a set of integers.
Min(S) == CHOOSE x \in S : \A y \in S : x <= y

\* The positions of the binary columns, and of those whose name starts with i or I.
BinaryAt(df) == {i \in 1..Len(df) : _is_binary(df[i].series)}
IBinaryAt(df) ==
    {i \in BinaryAt(df) : df[i].name # <<>> /\ df[i].name[1] \in {"i", "I"}}

\* C8: when neither preferred, TARGET nor "IsInsurable" resolves, the result
\* is the first binary column whose name starts with i or I, else the first
\* binary column, else the last column.
C8_Heuristics ==
    (guessed /\ Len(args.df) > 0 /\ NoneResolves(args.df, args.preferred)) =>
        LET df == args.df
        IN result = Return(
              IF IBinaryAt(df) # {} THEN df[Min(IBinaryAt(df))].name
              ELSE IF BinaryAt(df) # {} THEN df[Min(BinaryAt(df))].name
              ELSE df[Len(df)].name)

\* Nothing resolves, no binary column starts with i, and the first binary
\* column is not the first column.
C8_Witness ==
    /\ guessed
    /\ Len(args.df) = MaxCols
    /\ NoneResolves(args.df, args.preferred)
    /\ IBinaryAt(args.df) = {}
    /\ BinaryAt(args.df) # {}
    /\ Min(BinaryAt(args.df)) > 1
    /\ result = Return(args.df[Min(BinaryAt(args.df))].name)

\* The IsFraud table of C7: columns id, IsFraud, Amount in that order, IsFraud
\* with values, none other than 0 and 1, and nothing resolves.
FraudCase ==
    /\ guessed
    /\ columns(args.df) = <<id, IsFraud, Amount>>
    /\ dropna_unique(getitem(args.df, IsFraud)) # {}
    /\ dropna_unique(getitem(args.df, IsFraud)) \subseteq {IntCell(0), IntCell(1)}
    /\ NoneResolves(args.df, args.preferred)

\* C7 as stated: on the IsFraud table the result is "IsFraud", whatever the
\* id and Amount columns hold.
C7_IsFraudAlways == FraudCase => result = Return(IsFraud)

\* C7 amended: on the IsFraud table, when the id column is not itself binary,
\* the result is "IsFraud" (whatever the Amount column holds).
C7_IsFraudUnlessIdBinary ==
    (FraudCase /\ ~_is_binary(getitem(args.df, id))) => result = Return(IsFraud)

\* An IsFraud table with both values, id not binary, Amount binary.
C7_Witness ==
    /\ FraudCase
    /\ dropna_unique(getitem(args.df, IsFraud)) = {IntCell(0), IntCell(1)}
    /\ ~_is_binary(getitem(args.df, id))
    /\ _is_binary(getitem(args.df, Amount))
    /\ result = Return(IsFraud)

\* CSV_PATH is set to a path, which exists / does not exist.
CsvPathExists ==
    isset("CSV_PATH") /\ environ["CSV_PATH"] # "" /\ environ["CSV_PATH"] \in files
CsvPathMissing ==
    isset("CSV_PATH") /\ environ["CSV_PATH"] # "" /\ environ["CSV_PATH"] \notin files

\* The indices of the candidates that exist.
CandidatesAt == {i \in 1..Len(candidates) : candidates[i] \in files}

\* C3: when CSV_PATH is set to a path that exists, find_csv returns exactly
\* that string, whichever candidates exist.
C3_OverrideWins ==
    (op = "find_csv" /\ CsvPathExists) => result = Return(environ["CSV_PATH"])

\* CSV_PATH exists and so does a candidate.
C3_Witness ==
    /\ op = "find_csv"
    /\ CsvPathExists
    /\ environ["CSV_PATH"] = CustomPath
    /\ CandidatesAt # {}
    /\ result = Return(CustomPath)

\* C4: when CSV_PATH names a path that does not exist and some candidate
\* exists, find_csv returns the existing candidate of lowest index.
C4_FallsThrough ==
    (op = "find_csv" /\ CsvPathMissing /\ CandidatesAt # {})
        => result = Return(candidates[Min(CandidatesAt)])

\* CSV_PATH is missing, the first candidate too, and two later ones exist.
C4_Witness ==
    /\ op = "find_csv"
    /\ CsvPathMissing
    /\ Cardinality(CandidatesAt) >= 2
    /\ Min(CandidatesAt) > 1
    /\ result = Return(candidates[Min(CandidatesAt)])

\* C5: when CSV_PATH is unset and no candidate exists, find_csv raises
\* FileNotFoundError.
C5_NotFound ==
    (op = "find_csv" /\ ~isset("CSV_PATH") /\ CandidatesAt = {})
        => result = Raise("FileNotFoundError")

\* No CSV_PATH, no candidate, though another file exists.
C5_Witness ==
    /\ op = "find_csv"
    /\ ~isset("CSV_PATH")
    /\ CandidatesAt = {}
    /\ CustomPath \in files
    /\ result = Raise("FileNotFoundError")

\* load_dataset found a file, parsed it and returned a table.
Loaded ==
    /\ op = "load_dataset"
    /\ args.read.kind = "return"
    /\ result.kind = "return"

\* C6: load_dataset renames exactly when the parsed table has SLA_Breached
\* and no IsInsurable; then that column alone is called IsInsurable, at the
\* same position with the same values; otherwise the table is the parsed one.
C6_RenameRule ==
    Loaded =>
        LET parsed == args.read.value
            df == result.value
            renames == has_column(parsed, SLA_Breached) /\ ~has_column(parsed, IsInsurable)
        IN /\ Len(df) = Len(parsed)
           /\ \A i \in 1..Len(parsed) :
                /\ df[i].series = parsed[i].series
                /\ df[i].name = IF renames /\ parsed[i].name = SLA_Breached
                                THEN IsInsurable
                                ELSE parsed[i].name

\* SLA_Breached is the second column, next to a differently-cased one.
C6_Witness ==
    /\ Loaded
    /\ Len(args.read.value) = MaxCols
    /\ args.read.value[2].name = SLA_Breached
    /\ has_column(args.read.value, sla_breached)
    /\ result.value[2].name = IsInsurable
    /\ ~has_column(result.value, SLA_Breached)

\* The series has no value that is neither missing nor blank.
NoValue(series) ==
    \A i \in 1..Len(series.cells) :
        series.cells[i] = NA \/ strip(str(series.cells[i])) = <<>>

\* C9: a column without any non-missing, non-blank value is never classified
\* as binary (whatever its dtype).
C9_NoValueNeverBinary ==
    (op = "_is_binary" /\ NoValue(args.series)) => result = Return(FALSE)

====
